---------------------------- MODULE Spec2Model ----------------------------
(* Model of the sdl-vulkan-classes bootstrap layer: the capability        *)
(* queries, filter_by_name, Instance construction and destruction,        *)
(* Instance::select_gpu, PhysicalDevice::create_logical_device and         *)
(* VulkanException::enum_name.  Every library operation is an operator     *)
(* that maps its arguments and the driver's / window layer's answers to    *)
(* an outcome (return value, exception, calls made, allocations);          *)
(* actions apply the operators to inputs drawn from bounded sets.          *)
EXTENDS Integers, Sequences, FiniteSets, TLC

VARIABLES
    result_to_name,   \* the static std::map<VkResult, const char*>
    vk_instances,     \* driver contexts created and not destroyed
    instance_objs,    \* VkInstance held by each Instance object still in scope
    num_created,      \* number of driver contexts ever created
    physical_device,  \* the caller's PhysicalDevice descriptor, or NoDevice
    op,               \* the operation that ran last
    args,             \* its arguments
    ret,              \* its return value (NoValue when it threw)
    exc,              \* the exception it threw (NoExc when it returned)
    calls,            \* the driver / window-layer calls it made, in order
    heap_log,         \* the new[] / delete[] events it performed, in order
    main              \* test.cpp's main: its position, locals and history

vars == <<result_to_name, vk_instances, instance_objs, num_created,
          physical_device, op, args, ret, exc, calls, heap_log, main>>

-----------------------------------------------------------------------------
(* Bounds *)

NumNames == 3            \* distinct capability names
MaxInfos == 2            \* length of an ExtensionInfo list given to filter_by_name
MaxLayerInfos == 1       \* length of a LayerInfo list given to filter_by_name
MaxNames == 2            \* length of a list of names
MaxRequested == 2        \* length of a requested-extension list
MaxRequestedLayers == 1  \* length of a requested-layer list
MaxSupported == 2        \* extensions the driver reports for one accelerator
MaxProperties == 1       \* layers / extensions the driver reports globally
NumGpus == 2             \* accelerators the driver knows
MaxInstances == 2        \* driver contexts created in one run
MaxCode == 14            \* result codes -MaxCode..MaxCode are looked up

-----------------------------------------------------------------------------
(* VkResult codes that are keys of result_to_name *)

VK_SUCCESS == 0
VK_NOT_READY == 1
VK_TIMEOUT == 2
VK_EVENT_SET == 3
VK_EVENT_RESET == 4
VK_INCOMPLETE == 5
VK_ERROR_OUT_OF_HOST_MEMORY == -1
VK_ERROR_OUT_OF_DEVICE_MEMORY == -2
VK_ERROR_INITIALIZATION_FAILED == -3
VK_ERROR_DEVICE_LOST == -4
VK_ERROR_MEMORY_MAP_FAILED == -5
VK_ERROR_LAYER_NOT_PRESENT == -6
VK_ERROR_EXTENSION_NOT_PRESENT == -7
VK_ERROR_FEATURE_NOT_PRESENT == -8
VK_ERROR_INCOMPATIBLE_DRIVER == -9
VK_ERROR_TOO_MANY_OBJECTS == -10
VK_ERROR_FORMAT_NOT_SUPPORTED == -11
VK_ERROR_FRAGMENTED_POOL == -12
VK_ERROR_UNKNOWN == -13
VK_ERROR_OUT_OF_POOL_MEMORY == -1000069000
VK_ERROR_INVALID_EXTERNAL_HANDLE == -1000072003
VK_ERROR_FRAGMENTATION == -1000161000
VK_ERROR_INVALID_OPAQUE_CAPTURE_ADDRESS == -1000257000
VK_ERROR_SURFACE_LOST_KHR == -1000000000
VK_ERROR_NATIVE_WINDOW_IN_USE_KHR == -1000000001
VK_SUBOPTIMAL_KHR == 1000001003
VK_ERROR_OUT_OF_DATE_KHR == -1000001004
VK_ERROR_INCOMPATIBLE_DISPLAY_KHR == -1000003001
VK_ERROR_VALIDATION_FAILED_EXT == -1000011001
VK_ERROR_INVALID_SHADER_NV == -1000012000
VK_ERROR_INVALID_DRM_FORMAT_MODIFIER_PLANE_LAYOUT_EXT == -1000158000
VK_ERROR_NOT_PERMITTED_EXT == -1000174001
VK_ERROR_FULL_SCREEN_EXCLUSIVE_MODE_LOST_EXT == -1000255000
VK_THREAD_IDLE_KHR == 1000268000
VK_THREAD_DONE_KHR == 1000268001
VK_OPERATION_DEFERRED_KHR == 1000268002
VK_OPERATION_NOT_DEFERRED_KHR == 1000268003
VK_PIPELINE_COMPILE_REQUIRED_EXT == 1000297000

(* The initializer of the static table result_to_name. *)
ResultToName ==
    (VK_SUCCESS :> "VK_SUCCESS")
 @@ (VK_NOT_READY :> "VK_NOT_READY")
 @@ (VK_TIMEOUT :> "VK_TIMEOUT")
 @@ (VK_EVENT_SET :> "VK_EVENT_SET")
 @@ (VK_EVENT_RESET :> "VK_EVENT_RESET")
 @@ (VK_INCOMPLETE :> "VK_INCOMPLETE")
 @@ (VK_ERROR_OUT_OF_HOST_MEMORY :> "VK_ERROR_OUT_OF_HOST_MEMORY")
 @@ (VK_ERROR_OUT_OF_DEVICE_MEMORY :> "VK_ERROR_OUT_OF_DEVICE_MEMORY")
 @@ (VK_ERROR_INITIALIZATION_FAILED :> "VK_ERROR_INITIALIZATION_FAILED")
 @@ (VK_ERROR_DEVICE_LOST :> "VK_ERROR_DEVICE_LOST")
 @@ (VK_ERROR_MEMORY_MAP_FAILED :> "VK_ERROR_MEMORY_MAP_FAILED")
 @@ (VK_ERROR_LAYER_NOT_PRESENT :> "VK_ERROR_LAYER_NOT_PRESENT")
 @@ (VK_ERROR_EXTENSION_NOT_PRESENT :> "VK_ERROR_EXTENSION_NOT_PRESENT")
 @@ (VK_ERROR_FEATURE_NOT_PRESENT :> "VK_ERROR_FEATURE_NOT_PRESENT")
 @@ (VK_ERROR_INCOMPATIBLE_DRIVER :> "VK_ERROR_INCOMPATIBLE_DRIVER")
 @@ (VK_ERROR_TOO_MANY_OBJECTS :> "VK_ERROR_TOO_MANY_OBJECTS")
 @@ (VK_ERROR_FORMAT_NOT_SUPPORTED :> "VK_ERROR_FORMAT_NOT_SUPPORTED")
 @@ (VK_ERROR_FRAGMENTED_POOL :> "VK_ERROR_FRAGMENTED_POOL")
 @@ (VK_ERROR_UNKNOWN :> "VK_ERROR_UNKNOWN")
 @@ (VK_ERROR_OUT_OF_POOL_MEMORY :> "VK_ERROR_OUT_OF_POOL_MEMORY")
 @@ (VK_ERROR_INVALID_EXTERNAL_HANDLE :> "VK_ERROR_INVALID_EXTERNAL_HANDLE")
 @@ (VK_ERROR_FRAGMENTATION :> "VK_ERROR_FRAGMENTATION")
 @@ (VK_ERROR_INVALID_OPAQUE_CAPTURE_ADDRESS :> "VK_ERROR_INVALID_OPAQUE_CAPTURE_ADDRESS")
 @@ (VK_ERROR_SURFACE_LOST_KHR :> "VK_ERROR_SURFACE_LOST_KHR")
 @@ (VK_ERROR_NATIVE_WINDOW_IN_USE_KHR :> "VK_ERROR_NATIVE_WINDOW_IN_USE_KHR")
 @@ (VK_SUBOPTIMAL_KHR :> "VK_SUBOPTIMAL_KHR")
 @@ (VK_ERROR_OUT_OF_DATE_KHR :> "VK_ERROR_OUT_OF_DATE_KHR")
 @@ (VK_ERROR_INCOMPATIBLE_DISPLAY_KHR :> "VK_ERROR_INCOMPATIBLE_DISPLAY_KHR")
 @@ (VK_ERROR_VALIDATION_FAILED_EXT :> "VK_ERROR_VALIDATION_FAILED_EXT")
 @@ (VK_ERROR_INVALID_SHADER_NV :> "VK_ERROR_INVALID_SHADER_NV")
 @@ (VK_ERROR_INVALID_DRM_FORMAT_MODIFIER_PLANE_LAYOUT_EXT :> "VK_ERROR_INVALID_DRM_FORMAT_MODIFIER_PLANE_LAYOUT_EXT")
 @@ (VK_ERROR_NOT_PERMITTED_EXT :> "VK_ERROR_NOT_PERMITTED_EXT")
 @@ (VK_ERROR_FULL_SCREEN_EXCLUSIVE_MODE_LOST_EXT :> "VK_ERROR_FULL_SCREEN_EXCLUSIVE_MODE_LOST_EXT")
 @@ (VK_THREAD_IDLE_KHR :> "VK_THREAD_IDLE_KHR")
 @@ (VK_THREAD_DONE_KHR :> "VK_THREAD_DONE_KHR")
 @@ (VK_OPERATION_DEFERRED_KHR :> "VK_OPERATION_DEFERRED_KHR")
 @@ (VK_OPERATION_NOT_DEFERRED_KHR :> "VK_OPERATION_NOT_DEFERRED_KHR")
 @@ (VK_PIPELINE_COMPILE_REQUIRED_EXT :> "VK_PIPELINE_COMPILE_REQUIRED_EXT")

(* Result codes handed to enum_name: every key of the table and the small *)
(* integers around zero, of which -MaxCode..-14 and 6..MaxCode are not     *)
(* keys.                                                                   *)
Codes == DOMAIN ResultToName \cup (-MaxCode .. MaxCode)

(* A result code the table has no entry for. *)
UnlistedResult == -MaxCode

(* Results the driver's enumeration entry points answer with. *)
QueryResults == {VK_SUCCESS, VK_INCOMPLETE, VK_ERROR_OUT_OF_HOST_MEMORY}

(* Results the driver's creation entry points answer with. *)
CreateResults == {VK_SUCCESS, VK_ERROR_LAYER_NOT_PRESENT, UnlistedResult}

-----------------------------------------------------------------------------
(* Names, infos and lists *)

(* Capability names, listed in the order of std::string's operator<. *)
AllNames == <<"VK_KHR_maintenance1", "VK_KHR_surface", "VK_KHR_swapchain",
              "VK_KHR_win32_surface", "VK_KHR_xcb_surface">>

NameOrder == SubSeq(AllNames, 1, NumNames)

Names == {NameOrder[i] : i \in 1..NumNames}

Rank(name) == CHOOSE i \in 1..NumNames : NameOrder[i] = name

(* std::less<std::string> on the names of the model. *)
Less(a, b) == Rank(a) < Rank(b)

Versions == {1, 2}

Descriptions == {"validation layer", "overlay layer"}

ExtensionInfo == [name : Names, specVersion : Versions]

LayerInfo == [name : Names, description : Descriptions,
              specVersion : Versions, implementationVersion : Versions]

VkExtensionProperties == [extensionName : Names, specVersion : Versions]

VkLayerProperties == [layerName : Names, description : Descriptions,
                      specVersion : Versions, implementationVersion : Versions]

SeqsUpTo(S, n) == UNION {[1..k -> S] : k \in 0..n}

Range(s) == {s[i] : i \in DOMAIN s}

NoDuplicates(s) == \A i, j \in DOMAIN s : i # j => s[i] # s[j]

-----------------------------------------------------------------------------
(* filter_by_name *)

RECURSIVE filter_loop(_, _, _)
filter_loop(infos, names, result_infos) ==
    IF infos = <<>> THEN result_infos
    ELSE filter_loop(Tail(infos), names,
                     IF Head(infos).name \in names
                     THEN Append(result_infos, Head(infos))
                     ELSE result_infos)

(* One matching element only: the loop stops at the first match. *)
filter_by_name_first(infos, names_vec) ==
    LET all == filter_loop(infos, Range(names_vec), <<>>)
    IN  IF all = <<>> THEN <<>> ELSE <<Head(all)>>

RECURSIVE Reverse(_)
Reverse(s) == IF s = <<>> THEN <<>> ELSE Append(Reverse(Tail(s)), Head(s))

(* Matching elements inserted at the front of the result. *)
filter_by_name_reversed(infos, names_vec) ==
    Reverse(filter_loop(infos, Range(names_vec), <<>>))

filter_by_name(infos, names_vec) ==
    filter_loop(infos, Range(names_vec), <<>>)

-----------------------------------------------------------------------------
(* Outcomes, exceptions, allocations *)

NoValue == [void |-> TRUE]

NoExc == [type |-> "none"]

VulkanException(result, message) ==
    [type |-> "VulkanException", result |-> result, what |-> message]

runtime_error(message) == [type |-> "runtime_error", what |-> message]

Outcome(r, e, c, h) == [ret |-> r, exc |-> e, calls |-> c, heap_log |-> h]

New(kind, id) == [ev |-> "new", kind |-> kind, id |-> id]

Delete(kind, id) == [ev |-> "delete", kind |-> kind, id |-> id]

(* VulkanException::enum_name, by operator[] instead of find: an absent   *)
(* key is inserted with a null name.                                      *)
enum_name_subscript(table, result) ==
    IF result \notin DOMAIN table
    THEN [name |-> "", table |-> table @@ (result :> "")]
    ELSE [name |-> table[result], table |-> table]

(* VulkanException::enum_name: the name returned and the table after the  *)
(* lookup.                                                                 *)
enum_name(table, result) ==
    IF result \notin DOMAIN table
    THEN [name |-> "???", table |-> table]
    ELSE [name |-> table[result], table |-> table]

(* NamesArray's constructor: the pointer array is buffer base + 1 and the *)
(* copy of the i-th name is buffer base + 1 + i.                           *)
NamesArray(infos, base) ==
    [count |-> Len(infos),
     c_strings |-> base + 1,
     strings |-> [i \in 1..Len(infos) |->
                    [buf |-> base + 1 + i, chars |-> infos[i].name]]]

NamesArray_new(na) ==
    <<New("char*[]", na.c_strings)>> \o
    [i \in 1..na.count |-> New("char[]", na.strings[i].buf)]

(* ~NamesArray that frees the copies and forgets the pointer array. *)
NamesArray_delete_strings_only(na) ==
    [i \in 1..na.count |-> Delete("char[]", na.strings[na.count + 1 - i].buf)]

(* ~NamesArray: the copies from the last to the first, then the array. *)
NamesArray_delete(na) ==
    [i \in 1..na.count |-> Delete("char[]", na.strings[na.count + 1 - i].buf)]
    \o <<Delete("char*[]", na.c_strings)>>

(* The array filled from its last slot to its first. *)
c_strings_reversed(na) == [i \in 1..na.count |-> na.strings[na.count + 1 - i].chars]

(* What the driver reads through ppEnabled...Names. *)
c_strings(na) == [i \in 1..na.count |-> na.strings[i].chars]

-----------------------------------------------------------------------------
(* Capability queries.  `result` is the answer of the count call, the     *)
(* buffer argument is what the allocated array holds after the fill call   *)
(* (the driver's list when that call succeeded), `fill_result` the answer  *)
(* of the fill call.                                                       *)

get_layer_infos(result, layer_properties, fill_result) ==
    LET instance_layer_count == Len(layer_properties)
        count_call == [fn |-> "vkEnumerateInstanceLayerProperties",
                       pProperties |-> "NULL",
                       count |-> instance_layer_count, result |-> result]
        fill_call == [fn |-> "vkEnumerateInstanceLayerProperties",
                      pProperties |-> layer_properties,
                      count |-> instance_layer_count, result |-> fill_result]
        layer_infos == [i \in 1..instance_layer_count |->
            [name |-> layer_properties[i].layerName,
             description |-> layer_properties[i].description,
             specVersion |-> layer_properties[i].specVersion,
             implementationVersion |-> layer_properties[i].implementationVersion]]
    IN  IF result # VK_SUCCESS
        THEN Outcome(NoValue,
                     VulkanException(result, <<"Error getting number of layers">>),
                     <<count_call>>, <<>>)
        ELSE IF instance_layer_count = 0
        THEN Outcome(NoValue, runtime_error(<<"Layer count non-positive">>),
                     <<count_call>>, <<>>)
        ELSE Outcome(layer_infos, NoExc, <<count_call, fill_call>>,
                     <<New("VkLayerProperties[]", 1),
                       Delete("VkLayerProperties[]", 1)>>)

get_extension_infos(result, properties, fill_result) ==
    LET num_properties == Len(properties)
        count_call == [fn |-> "vkEnumerateInstanceExtensionProperties",
                       pProperties |-> "nullptr",
                       count |-> num_properties, result |-> result]
        fill_call == [fn |-> "vkEnumerateInstanceExtensionProperties",
                      pProperties |-> properties,
                      count |-> num_properties, result |-> fill_result]
        infos == [i \in 1..num_properties |->
            [name |-> properties[i].extensionName,
             specVersion |-> properties[i].specVersion]]
    IN  IF result # VK_SUCCESS
        THEN Outcome(NoValue,
                     VulkanException(result, <<"Error getting number of extensions">>),
                     <<count_call>>, <<>>)
        ELSE IF num_properties = 0
        THEN Outcome(NoValue, runtime_error(<<"Extension count zero">>),
                     <<count_call>>, <<>>)
        ELSE Outcome(infos, NoExc, <<count_call, fill_call>>,
                     <<New("VkExtensionProperties[]", 1),
                       Delete("VkExtensionProperties[]", 1)>>)

get_extension_names(success, extension_name_c_strings, fill_success) ==
    LET num_extensions == Len(extension_name_c_strings)
        count_call == [fn |-> "SDL_Vulkan_GetInstanceExtensions",
                       pNames |-> "nullptr",
                       count |-> num_extensions, success |-> success]
        fill_call == [fn |-> "SDL_Vulkan_GetInstanceExtensions",
                      pNames |-> extension_name_c_strings,
                      count |-> num_extensions, success |-> fill_success]
        extension_names == [i \in 1..num_extensions |-> extension_name_c_strings[i]]
    IN  IF ~success
        THEN Outcome(NoValue,
                     runtime_error(<<"SDL_Vulkan failed to get number of instance extensions\n">>),
                     <<count_call>>, <<>>)
        ELSE IF ~fill_success
        THEN Outcome(NoValue,
                     runtime_error(<<"SDL_Vulkan failed to get names of instance extensions\n">>),
                     <<count_call, fill_call>>,
                     <<New("const char*[]", 1)>>)
        ELSE Outcome(extension_names, NoExc, <<count_call, fill_call>>,
                     <<New("const char*[]", 1), Delete("const char*[]", 1)>>)

-----------------------------------------------------------------------------
(* Instance *)

(* test.cpp's CreateInstanceParameters. *)
CreateInstanceParameters(requested_layers, requested_extensions) ==
    [requested_layers |-> requested_layers,
     requested_extensions |-> requested_extensions,
     application_name |-> "My Application",
     application_version |-> 0,
     engine_name |-> "Cello",
     engine_version |-> 0]

(* Instance::Instance.  `result` and `instance` are what vkCreateInstance *)
(* answers and the handle it writes.  The two NamesArray locals are        *)
(* destroyed in reverse order of construction when the constructor         *)
(* returns and when it throws.                                             *)
Instance_ctor(parameters, result, instance) ==
    LET requested_layer_names == NamesArray(parameters.requested_layers, 0)
        requested_extension_names ==
            NamesArray(parameters.requested_extensions,
                       1 + requested_layer_names.count)
        create_call ==
            [fn |-> "vkCreateInstance",
             pApplicationName |-> parameters.application_name,
             applicationVersion |-> parameters.application_version,
             pEngineName |-> parameters.engine_name,
             engineVersion |-> parameters.engine_version,
             enabledExtensionCount |-> requested_extension_names.count,
             ppEnabledExtensionNames |-> c_strings(requested_extension_names),
             enabledLayerCount |-> requested_layer_names.count,
             ppEnabledLayerNames |-> c_strings(requested_layer_names),
             result |-> result]
        heap == NamesArray_new(requested_layer_names)
                \o NamesArray_new(requested_extension_names)
                \o NamesArray_delete(requested_extension_names)
                \o NamesArray_delete(requested_layer_names)
    IN  IF result # VK_SUCCESS
        THEN Outcome(NoValue,
                     VulkanException(result, <<"Error while creating vulkan instance">>),
                     <<create_call>>, heap)
        ELSE Outcome([instance |-> instance], NoExc, <<create_call>>, heap)

(* Instance::~Instance: the body is empty, so no driver call is made. *)
Instance_dtor(this) == Outcome(NoValue, NoExc, <<>>, <<>>)

(* select_gpu that picks the last accelerator of the list. *)
select_gpu_last(this, result, physicalDevices, fill_result, out_of_bounds) ==
    IF result # VK_SUCCESS
    THEN Outcome(NoValue,
                 VulkanException(result, <<"Error getting number of physical devices">>),
                 <<[fn |-> "vkEnumeratePhysicalDevices", instance |-> this.instance,
                    pPhysicalDevices |-> "nullptr",
                    count |-> Len(physicalDevices), result |-> result]>>, <<>>)
    ELSE Outcome([physical_device |-> IF physicalDevices = <<>> THEN out_of_bounds
                                      ELSE physicalDevices[Len(physicalDevices)],
                  queue_family_index |-> 0],
                 NoExc,
                 <<[fn |-> "vkEnumeratePhysicalDevices", instance |-> this.instance,
                    pPhysicalDevices |-> "nullptr",
                    count |-> Len(physicalDevices), result |-> result],
                   [fn |-> "vkEnumeratePhysicalDevices", instance |-> this.instance,
                    pPhysicalDevices |-> physicalDevices,
                    count |-> Len(physicalDevices), result |-> VK_SUCCESS]>>,
                 <<New("VkPhysicalDevice[]", 1), Delete("VkPhysicalDevice[]", 1)>>)

(* Instance::select_gpu.  `physicalDevices` is what the allocated array   *)
(* holds after the fill call; `out_of_bounds` is what reading element 0    *)
(* of a zero-length array yields.                                          *)
select_gpu(this, result, physicalDevices, fill_result, out_of_bounds) ==
    LET num_physical_devices == Len(physicalDevices)
        count_call == [fn |-> "vkEnumeratePhysicalDevices",
                       instance |-> this.instance,
                       pPhysicalDevices |-> "nullptr",
                       count |-> num_physical_devices, result |-> result]
        fill_call == [fn |-> "vkEnumeratePhysicalDevices",
                      instance |-> this.instance,
                      pPhysicalDevices |-> physicalDevices,
                      count |-> num_physical_devices, result |-> fill_result]
        index == 0
        selected == IF index + 1 \in DOMAIN physicalDevices
                    THEN physicalDevices[index + 1]
                    ELSE out_of_bounds
    IN  IF result # VK_SUCCESS
        THEN Outcome(NoValue,
                     VulkanException(result, <<"Error getting number of physical devices">>),
                     <<count_call>>, <<>>)
        ELSE IF fill_result # VK_SUCCESS
        THEN Outcome(NoValue,
                     VulkanException(fill_result, <<"Error getting list of physical devices">>),
                     <<count_call, fill_call>>,
                     <<New("VkPhysicalDevice[]", 1)>>)
        ELSE Outcome([physical_device |-> selected, queue_family_index |-> index],
                     NoExc, <<count_call, fill_call>>,
                     <<New("VkPhysicalDevice[]", 1), Delete("VkPhysicalDevice[]", 1)>>)

-----------------------------------------------------------------------------
(* PhysicalDevice::create_logical_device *)

(* test.cpp's CreateLogicalDeviceParameters. *)
CreateLogicalDeviceParameters(requested_layers, requested_extensions) ==
    [requested_layers |-> requested_layers,
     requested_extensions |-> requested_extensions]

(* The elements of a std::set<std::string> in iteration order. *)
RECURSIVE SetInOrder(_)
SetInOrder(set) ==
    IF set = {} THEN <<>>
    ELSE LET first == CHOOSE a \in set : \A b \in set \ {a} : Less(a, b)
         IN  <<first>> \o SetInOrder(set \ {first})

(* std::set_difference that copies the whole first range. *)
set_difference_copy_all(first1, first2) == first1

(* std::set_difference of two sorted ranges. *)
RECURSIVE set_difference_merge(_, _)
set_difference_merge(first1, first2) ==
    IF first1 = <<>> THEN <<>>
    ELSE IF first2 = <<>> THEN first1
    ELSE IF Less(Head(first1), Head(first2))
         THEN <<Head(first1)>> \o set_difference_merge(Tail(first1), first2)
    ELSE IF Less(Head(first2), Head(first1))
         THEN set_difference_merge(first1, Tail(first2))
    ELSE set_difference_merge(Tail(first1), Tail(first2))

set_difference(first1, first2) == set_difference_merge(first1, first2)

(* The loop over the requested infos that fills the set of requested names. *)
requested_extension_name_set(requested_extensions) ==
    {requested_extensions[i].name : i \in DOMAIN requested_extensions}

(* The loop that inserts every requested name, supported or not. *)
found_extension_names_unchecked(extension_properties, requested_set) ==
    requested_set

(* The loop over the supported extensions that collects the requested ones. *)
found_extension_names(extension_properties, requested_set) ==
    {extension_properties[i].extensionName :
        i \in {j \in DOMAIN extension_properties :
                 extension_properties[j].extensionName \in requested_set}}

(* The loop that appends " " + name for every name not found. *)
RECURSIVE not_found_names_str(_)
not_found_names_str(not_found_names) ==
    IF not_found_names = <<>> THEN <<>>
    ELSE <<" ", Head(not_found_names)>> \o not_found_names_str(Tail(not_found_names))

(* `result`, `fill_result`: the answers of the two enumeration calls;      *)
(* `extension_properties`: what the allocated array holds after the fill   *)
(* call; `create_result`, `device`: what vkCreateDevice answers and the    *)
(* handle it writes.  The query array is buffer 1, the marshaled names     *)
(* follow.                                                                 *)
create_logical_device(this, parameters, result, extension_properties, fill_result, create_result, device) ==
    LET num_device_extension_properties == Len(extension_properties)
        count_call == [fn |-> "vkEnumerateDeviceExtensionProperties",
                       physical_device |-> this.physical_device,
                       pProperties |-> "nullptr",
                       count |-> num_device_extension_properties,
                       result |-> result]
        fill_call == [fn |-> "vkEnumerateDeviceExtensionProperties",
                      physical_device |-> this.physical_device,
                      pProperties |-> extension_properties,
                      count |-> num_device_extension_properties,
                      result |-> fill_result]
        requested_extensions == parameters.requested_extensions
        requested_set == requested_extension_name_set(requested_extensions)
        found == found_extension_names(extension_properties, requested_set)
        not_found_names ==
            set_difference(SetInOrder(requested_set), SetInOrder(found))
        requested_layer_names == NamesArray(parameters.requested_layers, 1)
        requested_extension_names ==
            NamesArray(requested_extensions, 2 + requested_layer_names.count)
        create_call ==
            [fn |-> "vkCreateDevice",
             physical_device |-> this.physical_device,
             queueCreateInfoCount |-> 1,
             queueFamilyIndex |-> this.queue_family_index,
             queueCount |-> 1,
             enabledLayerCount |-> requested_layer_names.count,
             ppEnabledLayerNames |-> c_strings(requested_layer_names),
             enabledExtensionCount |-> requested_extension_names.count,
             ppEnabledExtensionNames |-> c_strings(requested_extension_names),
             result |-> create_result]
        names_heap == NamesArray_new(requested_layer_names)
                      \o NamesArray_new(requested_extension_names)
        names_unwind == NamesArray_delete(requested_extension_names)
                        \o NamesArray_delete(requested_layer_names)
        query_new == <<New("VkExtensionProperties[]", 1)>>
        query_delete == <<Delete("VkExtensionProperties[]", 1)>>
    IN  IF result # VK_SUCCESS
        THEN Outcome(NoValue,
                     VulkanException(result,
                         <<"Error while getting size of properties list for device">>),
                     <<count_call>>, <<>>)
        ELSE IF num_device_extension_properties = 0
        THEN Outcome(NoValue,
                     runtime_error(<<"No properties array found for physical device">>),
                     <<count_call>>, <<>>)
        ELSE IF fill_result # VK_SUCCESS
        THEN Outcome(NoValue,
                     VulkanException(fill_result,
                         <<"Error while getting list of device extension properties">>),
                     <<count_call, fill_call>>, query_new)
        ELSE IF Cardinality(found) # Cardinality(requested_set)
        THEN Outcome(NoValue,
                     runtime_error(<<"Not all extensions found:">>
                                   \o not_found_names_str(not_found_names)),
                     <<count_call, fill_call>>, query_new)
        ELSE IF create_result # VK_SUCCESS
        THEN Outcome(NoValue,
                     VulkanException(create_result,
                         <<"Error while creating logical devive">>),
                     <<count_call, fill_call, create_call>>,
                     query_new \o names_heap \o names_unwind)
        ELSE Outcome([device |-> device,
                      queue_family_index |-> this.queue_family_index],
                     NoExc,
                     <<count_call, fill_call, create_call>>,
                     query_new \o names_heap \o query_delete \o names_unwind)

-----------------------------------------------------------------------------
(* Surfaces, the window, and main's locals *)

(* Instance::create_surface.  `success` and `surface` are what             *)
(* SDL_Vulkan_CreateSurface answers and the handle it writes; the message  *)
(* is the format string followed by the window pointer as %p prints it.    *)
create_surface(this, window, success, surface) ==
    LET create_call == [fn |-> "SDL_Vulkan_CreateSurface", window |-> window,
                        instance |-> this.instance, success |-> success]
    IN  IF ~success
        THEN Outcome(NoValue,
                     runtime_error(<<"SDL could not create surface with window: %p",
                                     IF window = 0 THEN "(nil)" ELSE "0x1">>),
                     <<create_call>>, <<>>)
        ELSE Outcome([surface |-> surface], NoExc, <<create_call>>, <<>>)

(* is_surface_supported that passes the accelerator handle as the family. *)
is_surface_supported_by_handle(this, surface, result, supported) ==
    Outcome(supported, NoExc,
            <<[fn |-> "vkGetPhysicalDeviceSurfaceSupportKHR",
               physical_device |-> this.physical_device,
               queueFamilyIndex |-> this.physical_device,
               surface |-> surface.surface,
               supported |-> supported,
               result |-> result]>>, <<>>)

(* PhysicalDevice::is_surface_supported.  `result` is what the driver      *)
(* answers, which is not looked at, and `supported` the value found in the *)
(* local afterwards: what the driver wrote, or, when it wrote nothing, the *)
(* indeterminate value the local started with.                             *)
is_surface_supported(this, surface, result, supported) ==
    Outcome(supported, NoExc,
            <<[fn |-> "vkGetPhysicalDeviceSurfaceSupportKHR",
               physical_device |-> this.physical_device,
               queueFamilyIndex |-> this.queue_family_index,
               surface |-> surface.surface,
               supported |-> supported,
               result |-> result]>>, <<>>)

(* sdl.h's SDLException: a runtime_error that drops the result code. *)
SDLException(result, message) == [type |-> "SDLException", what |-> message]

(* sdl::get_vulkan_sdk_window.  `sdl_init_result` is what SDL_Init answers *)
(* and `window` what SDL_CreateWindow returns (0 is NULL).                 *)
get_vulkan_sdk_window(sdl_init_result, window) ==
    LET init_call == [fn |-> "SDL_Init", result |-> sdl_init_result]
        window_call == [fn |-> "SDL_CreateWindow", window |-> window]
    IN  IF sdl_init_result # 0
        THEN Outcome(NoValue,
                     SDLException(sdl_init_result, <<"SDL failed to initailize">>),
                     <<init_call>>, <<>>)
        ELSE Outcome(window, NoExc, <<init_call, window_call>>, <<>>)

(* main before its first statement. *)
MainNotStarted ==
    [pc |-> "get_vulkan_sdk_window",
     window |-> 0,
     layer_infos |-> <<>>,
     extension_infos |-> <<>>,
     extension_names |-> <<>>,
     window_extension_infos |-> <<>>,
     instance |-> 0,
     device_extension_infos |-> <<>>,
     surface |-> 0,
     stages |-> <<>>,
     fns |-> <<>>,
     handler |-> "none"]

-----------------------------------------------------------------------------
(* Input sets *)

NoDevice == [physical_device |-> -1, queue_family_index |-> -1]

GpuHandles == 1..NumGpus

(* What a read past the end of an array may yield: any handle, or none. *)
OutOfBoundsHandles == 0..NumGpus

GpuLists == {s \in SeqsUpTo(GpuHandles, NumGpus) : NoDuplicates(s)}

NameLists == SeqsUpTo(Names, MaxNames)

(* Requests name their capabilities; the other fields are not read. *)
RequestedExtensionLists ==
    SeqsUpTo({[name |-> n, specVersion |-> 1] : n \in Names}, MaxRequested)

(* Layers a request names. *)
LayerNames == {"VK_LAYER_KHRONOS_validation", "VK_LAYER_LUNARG_api_dump"}

RequestedLayerLists ==
    SeqsUpTo({[name |-> n, description |-> "validation layer",
               specVersion |-> 1, implementationVersion |-> 1] : n \in LayerNames},
             MaxRequestedLayers)

(* The driver reports every extension of an accelerator once. *)
SupportedLists ==
    {s \in SeqsUpTo({[extensionName |-> n, specVersion |-> 1] : n \in Names},
                    MaxSupported) : NoDuplicates(s)}

LayerPropertyLists == SeqsUpTo(VkLayerProperties, MaxProperties)

ExtensionPropertyLists == SeqsUpTo(VkExtensionProperties, MaxProperties)

InfoLists == SeqsUpTo(ExtensionInfo, MaxInfos) \cup SeqsUpTo(LayerInfo, MaxLayerInfos)

-----------------------------------------------------------------------------
(* Actions *)

RecordCall(name, a, out) ==
    /\ op' = name
    /\ args' = a
    /\ ret' = out.ret
    /\ exc' = out.exc
    /\ calls' = out.calls
    /\ heap_log' = out.heap_log

(* A call made by a caller other than main. *)
Record(name, a, out) ==
    /\ RecordCall(name, a, out)
    /\ UNCHANGED main

Init ==
    /\ result_to_name = ResultToName
    /\ vk_instances = {}
    /\ instance_objs = {}
    /\ num_created = 0
    /\ physical_device = NoDevice
    /\ op = "none"
    /\ args = <<>>
    /\ ret = NoValue
    /\ exc = NoExc
    /\ calls = <<>>
    /\ heap_log = <<>>
    /\ main = MainNotStarted

(* The caller is between two calls. *)
Idle == op = "none"

(* Answers of a call that is made only after `made` holds; an answer the  *)
(* operation never asks for is not enumerated.                             *)
Answers(made, set, unused) == IF made THEN set ELSE {unused}

GetLayerInfos ==
    /\ Idle
    /\ \E result \in QueryResults :
       \E layer_properties \in
            Answers(result = VK_SUCCESS, LayerPropertyLists, <<>>) :
       \E fill_result \in
            Answers(layer_properties # <<>>, QueryResults, VK_SUCCESS) :
        /\ Record("get_layer_infos", <<>>,
                  get_layer_infos(result, layer_properties, fill_result))
        /\ UNCHANGED <<result_to_name, vk_instances, instance_objs,
                       num_created, physical_device>>

GetExtensionInfos ==
    /\ Idle
    /\ \E result \in QueryResults :
       \E properties \in
            Answers(result = VK_SUCCESS, ExtensionPropertyLists, <<>>) :
       \E fill_result \in
            Answers(properties # <<>>, QueryResults, VK_SUCCESS) :
        /\ Record("get_extension_infos", <<>>,
                  get_extension_infos(result, properties, fill_result))
        /\ UNCHANGED <<result_to_name, vk_instances, instance_objs,
                       num_created, physical_device>>

GetExtensionNames ==
    /\ Idle
    /\ \E success \in BOOLEAN :
       \E names \in Answers(success, NameLists, <<>>) :
       \E fill_success \in Answers(success, BOOLEAN, TRUE) :
        /\ Record("get_extension_names", <<>>,
                  get_extension_names(success, names, fill_success))
        /\ UNCHANGED <<result_to_name, vk_instances, instance_objs,
                       num_created, physical_device>>

(* `Instance instance(parameters);` in the caller's scope. *)
InstanceCreate ==
    /\ Idle
    /\ num_created < MaxInstances
    /\ \E requested_layers \in RequestedLayerLists,
          requested_extensions \in RequestedExtensionLists,
          result \in CreateResults :
        LET parameters ==
                CreateInstanceParameters(requested_layers, requested_extensions)
            out == Instance_ctor(parameters, result, num_created + 1)
        IN  /\ Record("Instance", parameters, out)
            /\ IF out.exc = NoExc
               THEN /\ vk_instances' = vk_instances \cup {out.ret.instance}
                    /\ instance_objs' = instance_objs \cup {out.ret.instance}
                    /\ num_created' = num_created + 1
               ELSE UNCHANGED <<vk_instances, instance_objs, num_created>>
            /\ UNCHANGED <<result_to_name, physical_device>>

(* The scope of an Instance object ends: its destructor runs. *)
InstanceScopeEnd ==
    /\ Idle
    /\ \E instance \in instance_objs :
        /\ Record("~Instance", [instance |-> instance],
                  Instance_dtor([instance |-> instance]))
        /\ instance_objs' = instance_objs \ {instance}
        /\ UNCHANGED <<result_to_name, vk_instances, num_created, physical_device>>

(* `PhysicalDevice physical_device = instance.select_gpu();` *)
SelectGpu ==
    /\ Idle
    /\ \E instance \in instance_objs :
       \E result \in QueryResults :
       \E physicalDevices \in Answers(result = VK_SUCCESS, GpuLists, <<>>) :
       \E fill_result \in Answers(result = VK_SUCCESS, QueryResults, VK_SUCCESS) :
       \E out_of_bounds \in
            Answers(result = VK_SUCCESS /\ fill_result = VK_SUCCESS
                        /\ physicalDevices = <<>>,
                    OutOfBoundsHandles, 0) :
        LET out == select_gpu([instance |-> instance], result, physicalDevices,
                              fill_result, out_of_bounds)
        IN  /\ Record("select_gpu", [instance |-> instance], out)
            /\ physical_device' = IF out.exc = NoExc THEN out.ret
                                  ELSE physical_device
            /\ UNCHANGED <<result_to_name, vk_instances, instance_objs, num_created>>

(* e.enum_name() on a VulkanException holding `result`. *)
EnumName ==
    /\ Idle
    /\ \E result \in Codes :
        LET out == enum_name(result_to_name, result)
        IN  /\ Record("enum_name", result, Outcome(out.name, NoExc, <<>>, <<>>))
            /\ result_to_name' = out.table
            /\ UNCHANGED <<vk_instances, instance_objs, num_created, physical_device>>

CreateLogicalDevice ==
    /\ Idle
    /\ physical_device # NoDevice
    /\ \E requested_layers \in RequestedLayerLists,
          requested_extensions \in RequestedExtensionLists :
       \E result \in QueryResults :
       \E extension_properties \in
            Answers(result = VK_SUCCESS, SupportedLists, <<>>) :
       \E fill_result \in
            Answers(extension_properties # <<>>, QueryResults, VK_SUCCESS) :
       \E create_result \in
            Answers(extension_properties # <<>> /\ fill_result = VK_SUCCESS,
                    CreateResults, VK_SUCCESS) :
        LET parameters ==
                CreateLogicalDeviceParameters(requested_layers, requested_extensions)
            out == create_logical_device(physical_device, parameters, result,
                                         extension_properties, fill_result,
                                         create_result, 1)
        IN  /\ Record("create_logical_device",
                      [this |-> physical_device, parameters |-> parameters], out)
            /\ UNCHANGED <<result_to_name, vk_instances, instance_objs,
                           num_created, physical_device>>

(* `physical_device.is_surface_supported(surface)` on a surface the       *)
(* caller holds.                                                           *)
IsSurfaceSupported ==
    /\ Idle
    /\ physical_device # NoDevice
    /\ \E result \in QueryResults, supported \in BOOLEAN :
        LET surface == [surface |-> 1]
        IN  Record("is_surface_supported",
                   [this |-> physical_device, surface |-> surface],
                   is_surface_supported(physical_device, surface, result, supported))
    /\ UNCHANGED <<result_to_name, vk_instances, instance_objs,
                   num_created, physical_device>>

FilterByName ==
    /\ op = "filter_by_name args"
    /\ Record("filter_by_name", args,
              Outcome(filter_by_name(args.infos, args.names_vec), NoExc, <<>>, <<>>))
    /\ UNCHANGED <<result_to_name, vk_instances, instance_objs,
                   num_created, physical_device>>

(* The caller has looked at the outcome of the call (its return value or, *)
(* in a catch clause, its exception) and goes on.                          *)
Return ==
    /\ op \notin {"none", "filter_by_name args", "filter_by_name"}
    /\ op' = "none"
    /\ args' = <<>>
    /\ ret' = NoValue
    /\ exc' = NoExc
    /\ calls' = <<>>
    /\ heap_log' = <<>>
    /\ UNCHANGED <<result_to_name, vk_instances, instance_objs,
                   num_created, physical_device, main>>

Next ==
    \/ GetLayerInfos
    \/ GetExtensionInfos
    \/ GetExtensionNames
    \/ InstanceCreate
    \/ InstanceScopeEnd
    \/ SelectGpu
    \/ EnumName
    \/ Return

(* The library's operations called in any order by one caller. *)
Spec == Init /\ [][Next]_vars

(* A PhysicalDevice as select_gpu returns it, in the hands of a caller    *)
(* whose earlier Instances are in scope and who may create one more.      *)
DeviceInit ==
    /\ result_to_name = ResultToName
    /\ vk_instances = 1..(MaxInstances - 1)
    /\ instance_objs = 1..(MaxInstances - 1)
    /\ num_created = MaxInstances - 1
    /\ physical_device \in [physical_device : OutOfBoundsHandles,
                            queue_family_index : {0}]
    /\ op = "none"
    /\ args = <<>>
    /\ ret = NoValue
    /\ exc = NoExc
    /\ calls = <<>>
    /\ heap_log = <<>>
    /\ main = MainNotStarted

DeviceNext ==
    \/ InstanceCreate
    \/ SelectGpu
    \/ CreateLogicalDevice
    \/ IsSurfaceSupported
    \/ Return

(* The creation calls made by a caller that holds an Instance and a      *)
(* selected PhysicalDevice.                                               *)
DeviceSpec == DeviceInit /\ [][DeviceNext]_vars

FilterInit ==
    /\ result_to_name = ResultToName
    /\ vk_instances = {}
    /\ instance_objs = {}
    /\ num_created = 0
    /\ physical_device = NoDevice
    /\ op = "filter_by_name args"
    /\ args \in [infos : InfoLists, names_vec : NameLists]
    /\ ret = NoValue
    /\ exc = NoExc
    /\ calls = <<>>
    /\ heap_log = <<>>
    /\ main = MainNotStarted

FilterNext == FilterByName

(* filter_by_name applied to every list of infos and of names. *)
FilterSpec == FilterInit /\ [][FilterNext]_vars

-----------------------------------------------------------------------------
(* test.cpp's main *)

(* The statements of main's try block, in program order. *)
StageOrder ==
    <<"get_vulkan_sdk_window", "get_layer_infos", "get_extension_infos",
      "get_extension_names", "filter_by_name window", "Instance", "select_gpu",
      "filter_by_name device", "create_logical_device", "create_surface",
      "is_surface_supported">>

StageIndex(stage) == CHOOSE i \in DOMAIN StageOrder : StageOrder[i] = stage

(* Where control goes when a statement of the try block completes. *)
Successor(stage) ==
    IF StageIndex(stage) < Len(StageOrder)
    THEN StageOrder[StageIndex(stage) + 1]
    ELSE "end of try"

(* main with every statement's exception swallowed where it is thrown. *)
NextPc_swallow(stage, out) == Successor(stage)

(* Control after a statement of the try block: the next statement, or the *)
(* catch clauses when the statement threw.                                 *)
NextPc(stage, out) ==
    IF out.exc = NoExc THEN Successor(stage) ELSE "catch"

(* The catch clause of main that an exception in flight enters. *)
Handler(e) ==
    IF e.type = "VulkanException" THEN "VulkanException&"
    ELSE IF e.type \in {"runtime_error", "SDLException"} THEN "std::runtime_error&"
    ELSE "..."

(* A statement of the try block has run with outcome `out`; `locals` is   *)
(* main with the locals the statement assigns.                             *)
MainStep(stage, out, locals) ==
    /\ RecordCall(stage, <<>>, out)
    /\ main' = [locals EXCEPT
                   !.pc = NextPc(stage, out),
                   !.stages = Append(@, [stage |-> stage, ok |-> out.exc = NoExc]),
                   !.fns = @ \o [i \in DOMAIN out.calls |->
                                   [stage |-> stage, fn |-> out.calls[i].fn]]]

(* What the driver reports to main: each layer and each extension once.   *)
(* The fields main never reads are fixed.                                  *)
MainLayerPropertyLists ==
    {s \in SeqsUpTo({[layerName |-> n, description |-> "validation layer",
                       specVersion |-> 1, implementationVersion |-> 1] :
                          n \in LayerNames}, MaxProperties) : NoDuplicates(s)}

MainExtensionPropertyLists ==
    {s \in SeqsUpTo({[extensionName |-> n, specVersion |-> 1] : n \in Names},
                    MaxProperties) : NoDuplicates(s)}

(* `SDL_Window* window = get_vulkan_sdk_window();` *)
MainWindow ==
    /\ main.pc = "get_vulkan_sdk_window"
    /\ \E sdl_init_result \in {0, -1} :
       \E window \in Answers(sdl_init_result = 0, {0, 1}, 0) :
        LET out == get_vulkan_sdk_window(sdl_init_result, window)
        IN  MainStep("get_vulkan_sdk_window", out,
                     IF out.exc = NoExc THEN [main EXCEPT !.window = out.ret]
                     ELSE main)
    /\ UNCHANGED <<result_to_name, vk_instances, instance_objs,
                   num_created, physical_device>>

(* `std::vector<LayerInfo> layer_infos = get_layer_infos();` *)
MainLayerInfos ==
    /\ main.pc = "get_layer_infos"
    /\ \E result \in QueryResults :
       \E layer_properties \in
            Answers(result = VK_SUCCESS, MainLayerPropertyLists, <<>>) :
       \E fill_result \in
            Answers(layer_properties # <<>>, QueryResults, VK_SUCCESS) :
        LET out == get_layer_infos(result, layer_properties, fill_result)
        IN  MainStep("get_layer_infos", out,
                     IF out.exc = NoExc THEN [main EXCEPT !.layer_infos = out.ret]
                     ELSE main)
    /\ UNCHANGED <<result_to_name, vk_instances, instance_objs,
                   num_created, physical_device>>

(* `std::vector<ExtensionInfo> extension_infos = get_extension_infos();` *)
MainExtensionInfos ==
    /\ main.pc = "get_extension_infos"
    /\ \E result \in QueryResults :
       \E properties \in
            Answers(result = VK_SUCCESS, MainExtensionPropertyLists, <<>>) :
       \E fill_result \in
            Answers(properties # <<>>, QueryResults, VK_SUCCESS) :
        LET out == get_extension_infos(result, properties, fill_result)
        IN  MainStep("get_extension_infos", out,
                     IF out.exc = NoExc THEN [main EXCEPT !.extension_infos = out.ret]
                     ELSE main)
    /\ UNCHANGED <<result_to_name, vk_instances, instance_objs,
                   num_created, physical_device>>

(* `std::vector<std::string> extension_names = get_extension_names(window);` *)
MainExtensionNames ==
    /\ main.pc = "get_extension_names"
    /\ \E success \in BOOLEAN :
       \E names \in Answers(success, NameLists, <<>>) :
       \E fill_success \in Answers(success, BOOLEAN, TRUE) :
        LET out == get_extension_names(success, names, fill_success)
        IN  MainStep("get_extension_names", out,
                     IF out.exc = NoExc THEN [main EXCEPT !.extension_names = out.ret]
                     ELSE main)
    /\ UNCHANGED <<result_to_name, vk_instances, instance_objs,
                   num_created, physical_device>>

(* `window_extension_infos = filter_by_name(extension_infos,              *)
(* extension_names);`  extension_names is not read again.                  *)
MainFilterWindow ==
    /\ main.pc = "filter_by_name window"
    /\ LET out == Outcome(filter_by_name(main.extension_infos, main.extension_names),
                          NoExc, <<>>, <<>>)
       IN  MainStep("filter_by_name window", out,
                    [main EXCEPT !.window_extension_infos = out.ret,
                                 !.extension_names = <<>>])
    /\ UNCHANGED <<result_to_name, vk_instances, instance_objs,
                   num_created, physical_device>>

(* `Instance instance(CreateInstanceParameters(layer_infos,               *)
(* window_extension_infos));`  window_extension_infos is not read again.   *)
MainInstance ==
    /\ main.pc = "Instance"
    /\ \E result \in CreateResults :
        LET parameters ==
                CreateInstanceParameters(main.layer_infos, main.window_extension_infos)
            out == Instance_ctor(parameters, result, num_created + 1)
        IN  /\ MainStep("Instance", out,
                        IF out.exc = NoExc
                        THEN [main EXCEPT !.instance = out.ret.instance,
                                          !.window_extension_infos = <<>>]
                        ELSE main)
            /\ IF out.exc = NoExc
               THEN /\ vk_instances' = vk_instances \cup {out.ret.instance}
                    /\ instance_objs' = instance_objs \cup {out.ret.instance}
                    /\ num_created' = num_created + 1
               ELSE UNCHANGED <<vk_instances, instance_objs, num_created>>
    /\ UNCHANGED <<result_to_name, physical_device>>

(* `PhysicalDevice physical_device = instance.select_gpu();` *)
MainSelectGpu ==
    /\ main.pc = "select_gpu"
    /\ \E result \in QueryResults :
       \E physicalDevices \in Answers(result = VK_SUCCESS, GpuLists, <<>>) :
       \E fill_result \in Answers(result = VK_SUCCESS, QueryResults, VK_SUCCESS) :
       \E out_of_bounds \in
            Answers(result = VK_SUCCESS /\ fill_result = VK_SUCCESS
                        /\ physicalDevices = <<>>,
                    OutOfBoundsHandles, 0) :
        LET out == select_gpu([instance |-> main.instance], result, physicalDevices,
                              fill_result, out_of_bounds)
        IN  /\ MainStep("select_gpu", out, main)
            /\ physical_device' = IF out.exc = NoExc THEN out.ret
                                  ELSE physical_device
    /\ UNCHANGED <<result_to_name, vk_instances, instance_objs, num_created>>

(* `device_extension_infos = filter_by_name(extension_infos,              *)
(* {VK_KHR_SWAPCHAIN_EXTENSION_NAME});`  extension_infos is not read again. *)
MainFilterDevice ==
    /\ main.pc = "filter_by_name device"
    /\ LET out == Outcome(filter_by_name(main.extension_infos, <<"VK_KHR_swapchain">>),
                          NoExc, <<>>, <<>>)
       IN  MainStep("filter_by_name device", out,
                    [main EXCEPT !.device_extension_infos = out.ret,
                                 !.extension_infos = <<>>])
    /\ UNCHANGED <<result_to_name, vk_instances, instance_objs,
                   num_created, physical_device>>

(* `physical_device.create_logical_device(CreateLogicalDeviceParameters(  *)
(* layer_infos, device_extension_infos));`  Neither list is read again,    *)
(* and the LogicalDevice is not used.                                      *)
MainCreateLogicalDevice ==
    /\ main.pc = "create_logical_device"
    /\ \E result \in QueryResults :
       \E extension_properties \in
            Answers(result = VK_SUCCESS, SupportedLists, <<>>) :
       \E fill_result \in
            Answers(extension_properties # <<>>, QueryResults, VK_SUCCESS) :
       \E create_result \in
            Answers(extension_properties # <<>> /\ fill_result = VK_SUCCESS,
                    CreateResults, VK_SUCCESS) :
        LET parameters ==
                CreateLogicalDeviceParameters(main.layer_infos,
                                              main.device_extension_infos)
            out == create_logical_device(physical_device, parameters, result,
                                         extension_properties, fill_result,
                                         create_result, 1)
        IN  MainStep("create_logical_device", out,
                     IF out.exc = NoExc
                     THEN [main EXCEPT !.layer_infos = <<>>,
                                       !.device_extension_infos = <<>>]
                     ELSE main)
    /\ UNCHANGED <<result_to_name, vk_instances, instance_objs,
                   num_created, physical_device>>

(* `Surface surface = instance.create_surface(window);` *)
MainCreateSurface ==
    /\ main.pc = "create_surface"
    /\ \E success \in BOOLEAN :
        LET out == create_surface([instance |-> main.instance], main.window,
                                  success, 1)
        IN  MainStep("create_surface", out,
                     IF out.exc = NoExc THEN [main EXCEPT !.surface = out.ret.surface]
                     ELSE main)
    /\ UNCHANGED <<result_to_name, vk_instances, instance_objs,
                   num_created, physical_device>>

(* `physical_device.is_surface_supported(surface)` inside the printf. *)
MainIsSurfaceSupported ==
    /\ main.pc = "is_surface_supported"
    /\ \E result \in QueryResults, supported \in BOOLEAN :
        MainStep("is_surface_supported",
                 is_surface_supported(physical_device, [surface |-> main.surface],
                                      result, supported),
                 main)
    /\ UNCHANGED <<result_to_name, vk_instances, instance_objs,
                   num_created, physical_device>>

(* The try block is left, by its last statement or by an exception: the   *)
(* Instance, if it was constructed, is destroyed, and an exception enters  *)
(* its catch clause, where a VulkanException is asked for its enum_name.   *)
MainLeaveTry ==
    /\ main.pc \in {"end of try", "catch"}
    /\ instance_objs' = instance_objs \ {main.instance}
    /\ IF main.pc = "catch"
       THEN /\ main' = [main EXCEPT !.pc = "SDL_Quit", !.handler = Handler(exc)]
            /\ result_to_name' =
                   IF Handler(exc) = "VulkanException&"
                   THEN enum_name(result_to_name, exc.result).table
                   ELSE result_to_name
       ELSE /\ main' = [main EXCEPT !.pc = "SDL_Quit"]
            /\ UNCHANGED result_to_name
    /\ UNCHANGED <<vk_instances, num_created, physical_device,
                   op, args, ret, exc, calls, heap_log>>

(* `SDL_Quit(); return 0;` *)
MainQuit ==
    /\ main.pc = "SDL_Quit"
    /\ main' = [main EXCEPT
                   !.pc = "done",
                   !.fns = Append(@, [stage |-> "SDL_Quit", fn |-> "SDL_Quit"])]
    /\ UNCHANGED <<result_to_name, vk_instances, instance_objs, num_created,
                   physical_device, op, args, ret, exc, calls, heap_log>>

MainNext ==
    \/ MainWindow
    \/ MainLayerInfos
    \/ MainExtensionInfos
    \/ MainExtensionNames
    \/ MainFilterWindow
    \/ MainInstance
    \/ MainSelectGpu
    \/ MainFilterDevice
    \/ MainCreateLogicalDevice
    \/ MainCreateSurface
    \/ MainIsSurfaceSupported
    \/ MainLeaveTry
    \/ MainQuit

(* One run of test.cpp's main against every answer of the driver and the  *)
(* window layer.                                                           *)
MainSpec == Init /\ [][MainNext]_vars

-----------------------------------------------------------------------------
(* Vocabulary of the properties *)

IsCreateLogicalDevice == op = "create_logical_device"

(* EmptyResult: the runtime_error a query throws for a count of zero. *)
IsEmptyResult(e) ==
    /\ e.type = "runtime_error"
    /\ e.what \in {<<"Layer count non-positive">>,
                   <<"Extension count zero">>,
                   <<"No properties array found for physical device">>}

(* UnsatisfiedRequirement: the runtime_error that lists the missing names. *)
IsUnsatisfiedRequirement(e) ==
    /\ e.type = "runtime_error"
    /\ Head(e.what) = "Not all extensions found:"

RequestedNames == {args.parameters.requested_extensions[i].name :
                      i \in DOMAIN args.parameters.requested_extensions}

(* The names the driver reported in the calls made (none for a count of 0). *)
SupportedNames ==
    IF Len(calls) >= 2
    THEN {calls[2].pProperties[i].extensionName : i \in DOMAIN calls[2].pProperties}
    ELSE {}

Ascending(p) == \A i, j \in DOMAIN p : i < j => Rank(p[i]) < Rank(p[j])

SpaceJoined(p) == [i \in 1..(2 * Len(p)) |->
                      IF i % 2 = 1 THEN " " ELSE p[i \div 2]]

BothEnumerationsSucceeded ==
    /\ calls[1].result = VK_SUCCESS
    /\ Len(calls) >= 2 => calls[2].result = VK_SUCCESS

-----------------------------------------------------------------------------
(* C1 (as amended): when both enumeration calls succeed and the supported  *)
(* list S is not empty, create_logical_device throws the "Not all          *)
(* extensions found:" error if and only if some requested name is not in   *)
(* S, and the message then lists the names of R minus S, each once, in     *)
(* ascending order, each preceded by one space; when the driver reports    *)
(* zero supported extensions it throws the EmptyResult error whatever R    *)
(* is.                                                                     *)
C1_UnsatisfiedIffMissing ==
    (IsCreateLogicalDevice /\ BothEnumerationsSucceeded) =>
        IF calls[1].count = 0
        THEN IsEmptyResult(exc)
        ELSE LET missing == RequestedNames \ SupportedNames
             IN  /\ IsUnsatisfiedRequirement(exc) <=> missing # {}
                 /\ missing # {} =>
                      \E p \in [1..Cardinality(missing) -> missing] :
                          /\ Ascending(p)
                          /\ exc.what = <<"Not all extensions found:">>
                                        \o SpaceJoined(p)

(* Two requested names are missing, a third one is supported. *)
C1_Witness ==
    /\ IsCreateLogicalDevice
    /\ BothEnumerationsSucceeded
    /\ Cardinality(RequestedNames \ SupportedNames) = 2
    /\ SupportedNames # {}
    /\ IsUnsatisfiedRequirement(exc)

(* C1 as stated, the empty supported list included: UnsatisfiedRequirement *)
(* if and only if the requested names are not all supported.               *)
C1_Original ==
    (IsCreateLogicalDevice /\ BothEnumerationsSucceeded) =>
        (IsUnsatisfiedRequirement(exc) <=> ~(RequestedNames \subseteq SupportedNames))

-----------------------------------------------------------------------------
(* C2: filter_by_name(L, N) is exactly the subsequence of L, in L's order, *)
(* of the elements whose name occurs in N, one per occurrence in L; it is  *)
(* empty when N is empty or shares no name with L.                          *)
C2_FilterIsOrderedSelection ==
    op = "filter_by_name" =>
        LET L == args.infos
            N == Range(args.names_vec)
            kept == {i \in DOMAIN L : L[i].name \in N}
        IN  /\ Len(ret) = Cardinality(kept)
            /\ \E f \in [1..Len(ret) -> kept] :
                  /\ \A i, j \in 1..Len(ret) : i < j => f[i] < f[j]
                  /\ \A k \in 1..Len(ret) : ret[k] = L[f[k]]
            /\ (N = {} \/ N \cap {L[i].name : i \in DOMAIN L} = {}) => ret = <<>>

(* Two different elements are kept, under a name list with a duplicate. *)
C2_Witness ==
    /\ op = "filter_by_name"
    /\ Len(ret) = 2
    /\ ret[1] # ret[2]
    /\ Len(args.names_vec) = 2
    /\ args.names_vec[1] = args.names_vec[2]

-----------------------------------------------------------------------------
(* C3: every query whose count comes back as zero throws EmptyResult.      *)
C3_ZeroCountIsEmptyResult ==
    /\ (/\ op \in {"get_layer_infos", "get_extension_infos", "select_gpu",
                   "create_logical_device"}
        /\ calls[1].result = VK_SUCCESS
        /\ calls[1].count = 0) => IsEmptyResult(exc)
    /\ (/\ op = "get_extension_names"
        /\ calls[1].success
        /\ calls[1].count = 0) => IsEmptyResult(exc)

-----------------------------------------------------------------------------
(* C4: when both enumeration calls succeed on a non-empty accelerator list *)
(* select_gpu returns the first accelerator paired with queue-family index *)
(* 0 (a function of the list alone, so two calls on the same list agree);  *)
(* when either call fails it throws a VulkanException holding that call's  *)
(* result and returns nothing.                                             *)
C4_SelectsFirstOrThrows ==
    op = "select_gpu" =>
        /\ (/\ calls[1].result = VK_SUCCESS
            /\ calls[2].result = VK_SUCCESS
            /\ calls[2].pPhysicalDevices # <<>>) =>
                /\ exc = NoExc
                /\ ret = [physical_device |-> calls[2].pPhysicalDevices[1],
                          queue_family_index |-> 0]
                /\ physical_device = ret
        /\ calls[1].result # VK_SUCCESS =>
                /\ Len(calls) = 1
                /\ exc.type = "VulkanException"
                /\ exc.result = calls[1].result
                /\ ret = NoValue
        /\ (calls[1].result = VK_SUCCESS /\ calls[2].result # VK_SUCCESS) =>
                /\ exc.type = "VulkanException"
                /\ exc.result = calls[2].result
                /\ ret = NoValue

(* The first of two accelerators was selected. *)
C4_Witness ==
    /\ op = "select_gpu"
    /\ exc = NoExc
    /\ Len(calls[2].pPhysicalDevices) = 2
    /\ ret.physical_device = calls[2].pPhysicalDevices[1]
    /\ ret.queue_family_index = 0

-----------------------------------------------------------------------------
InfoNames(infos) == [i \in DOMAIN infos |-> infos[i].name]

(* What C5 holds of every Instance construction besides the name of the    *)
(* error code.                                                             *)
C5_OneCreateCall ==
    /\ Len(calls) = 1
    /\ calls[1].fn = "vkCreateInstance"
    /\ calls[1].ppEnabledLayerNames = InfoNames(args.requested_layers)
    /\ calls[1].enabledLayerCount = Len(args.requested_layers)
    /\ calls[1].ppEnabledExtensionNames = InfoNames(args.requested_extensions)
    /\ calls[1].enabledExtensionCount = Len(args.requested_extensions)
    /\ exc = NoExc <=> calls[1].result = VK_SUCCESS
    /\ exc = NoExc => ret.instance \in instance_objs \cap vk_instances
    /\ exc # NoExc =>
         /\ exc.type = "VulkanException"
         /\ exc.result = calls[1].result
         /\ ret = NoValue

(* C5 (as amended): Instance construction calls vkCreateInstance exactly   *)
(* once, with the requested layer and extension names in request order and *)
(* no validation; it yields an Instance if and only if the driver answers  *)
(* VK_SUCCESS, and otherwise throws a VulkanException whose code() is the  *)
(* driver's result and whose enum_name() is that code's symbolic name when *)
(* the code is a key of result_to_name and "???" when it is not.           *)
C5_CreateOnceOrThrow ==
    op = "Instance" =>
        /\ C5_OneCreateCall
        /\ exc # NoExc =>
             enum_name(result_to_name, exc.result).name =
                IF exc.result \in DOMAIN ResultToName
                THEN ResultToName[exc.result] ELSE "???"

(* The driver rejected a request of two extensions and one layer. *)
C5_Witness ==
    /\ op = "Instance"
    /\ exc.type = "VulkanException"
    /\ exc.result = VK_ERROR_LAYER_NOT_PRESENT
    /\ calls[1].enabledExtensionCount = 2
    /\ calls[1].ppEnabledExtensionNames[1] # calls[1].ppEnabledExtensionNames[2]
    /\ calls[1].enabledLayerCount = 1

(* C5 as stated: the exception's enum_name() is always the symbolic name   *)
(* of the driver's result code.                                            *)
C5_Original ==
    op = "Instance" =>
        /\ C5_OneCreateCall
        /\ exc # NoExc =>
             /\ exc.result \in DOMAIN ResultToName
             /\ enum_name(result_to_name, exc.result).name = ResultToName[exc.result]

-----------------------------------------------------------------------------
(* C6: enum_name returns the table's name for every code that is a key of  *)
(* result_to_name and "???" for every other code, never throws, and leaves *)
(* the table as it was initialized.                                        *)
C6_EnumNameTotal ==
    /\ result_to_name = ResultToName
    /\ op = "enum_name" =>
        /\ exc = NoExc
        /\ args \in DOMAIN ResultToName => ret = ResultToName[args]
        /\ args \notin DOMAIN ResultToName => ret = "???"

(* A code that is not a key was looked up. *)
C6_Witness ==
    /\ op = "enum_name"
    /\ args = UnlistedResult
    /\ ret = "???"

-----------------------------------------------------------------------------
(* C7: every element of L whose name is in N appears in                    *)
(* filter_by_name(L, N) with all its fields, and every element of the      *)
(* result is an element of L.                                              *)
C7_FilterKeepsElementsWhole ==
    op = "filter_by_name" =>
        /\ \A i \in DOMAIN args.infos :
              args.infos[i].name \in Range(args.names_vec) =>
                  \E k \in DOMAIN ret : ret[k] = args.infos[i]
        /\ \A k \in DOMAIN ret : \E i \in DOMAIN args.infos : ret[k] = args.infos[i]

(* Two ExtensionInfos of one name and different versions are both kept. *)
C7_Witness ==
    /\ op = "filter_by_name"
    /\ Len(ret) = 2
    /\ ret[1].name = ret[2].name
    /\ ret[1].specVersion # ret[2].specVersion

-----------------------------------------------------------------------------
(* C8: once an Instance object has gone out of scope, the driver context   *)
(* it held is no longer live.                                              *)
C8_ContextReleased ==
    \A instance \in 1..num_created :
        instance \notin instance_objs => instance \notin vk_instances

-----------------------------------------------------------------------------
(* C9: vkCreateDevice is called only as the third call, after both         *)
(* enumeration calls succeeded with a count above zero, and then every     *)
(* extension name it is given, which are the requested names, is among the *)
(* names the fill call reported for the same accelerator.                  *)
C9_CreateOnlyWithSupportedNames ==
    IsCreateLogicalDevice =>
        \A k \in DOMAIN calls :
            calls[k].fn = "vkCreateDevice" =>
                /\ k = 3
                /\ calls[1].result = VK_SUCCESS
                /\ calls[1].count > 0
                /\ calls[2].result = VK_SUCCESS
                /\ calls[2].physical_device = calls[3].physical_device
                /\ calls[3].ppEnabledExtensionNames =
                      InfoNames(args.parameters.requested_extensions)
                /\ \A i \in DOMAIN calls[3].ppEnabledExtensionNames :
                      calls[3].ppEnabledExtensionNames[i] \in SupportedNames

(* The driver was asked to create a device with two supported extensions. *)
C9_Witness ==
    /\ IsCreateLogicalDevice
    /\ Len(calls) = 3
    /\ calls[3].fn = "vkCreateDevice"
    /\ calls[3].enabledExtensionCount = 2
    /\ calls[3].ppEnabledExtensionNames[1] # calls[3].ppEnabledExtensionNames[2]

-----------------------------------------------------------------------------
IsNameBuffer(e) == e.kind \in {"char*[]", "char[]"}

Events(ev, id) == {i \in DOMAIN heap_log :
                      /\ heap_log[i].ev = ev
                      /\ IsNameBuffer(heap_log[i])
                      /\ heap_log[i].id = id}

NameBuffers == {heap_log[i].id : i \in {j \in DOMAIN heap_log :
                    heap_log[j].ev = "new" /\ IsNameBuffer(heap_log[j])}}

CreationCalls == {k \in DOMAIN calls :
                     calls[k].fn \in {"vkCreateInstance", "vkCreateDevice"}}

(* C10: when Instance construction or create_logical_device has returned   *)
(* or thrown, the call that reached the driver's creation entry point has  *)
(* allocated one pointer array per name list and one buffer per name, and  *)
(* each of them has been freed exactly once, after it was allocated; no    *)
(* name buffer is freed that was not allocated.                            *)
C10_NameBuffersReleased ==
    op \in {"Instance", "create_logical_device"} =>
        /\ \A k \in CreationCalls :
              Cardinality(NameBuffers) =
                 2 + calls[k].enabledLayerCount + calls[k].enabledExtensionCount
        /\ \A id \in NameBuffers :
              /\ Cardinality(Events("new", id)) = 1
              /\ Cardinality(Events("delete", id)) = 1
              /\ \A i \in Events("new", id), j \in Events("delete", id) : i < j
        /\ \A i \in DOMAIN heap_log :
              (heap_log[i].ev = "delete" /\ IsNameBuffer(heap_log[i])) =>
                  heap_log[i].id \in NameBuffers

(* The driver refused to create a device asked with three names. *)
C10_Witness ==
    /\ IsCreateLogicalDevice
    /\ exc.type = "VulkanException"
    /\ Len(calls) = 3
    /\ calls[3].enabledLayerCount + calls[3].enabledExtensionCount = 3
    /\ Cardinality(NameBuffers) = 5

(* The statement of main's try block that a logged call was made by. *)
FnStage(i) ==
    IF main.fns[i].stage = "SDL_Quit" THEN Len(StageOrder) + 1
    ELSE StageIndex(main.fns[i].stage)

MainFailed == \E i \in DOMAIN main.stages : ~main.stages[i].ok

(* C11: in main's bootstrap sequence the statements run in program order, *)
(* none twice, and each only after every earlier one succeeded; a failure  *)
(* is the last statement run, its exception is the one the catch clauses   *)
(* receive, and no driver or window-layer call of a later statement is     *)
(* made; main always has a next step until it has returned, SDL_Quit is    *)
(* called at most once, last, and exactly once by the time main returns.   *)
C11_FailureEndsBootstrap ==
    LET n == Len(main.stages)
        quits == {i \in DOMAIN main.fns : main.fns[i].fn = "SDL_Quit"}
    IN  /\ n <= Len(StageOrder)
        /\ \A i \in 1..n : main.stages[i].stage = StageOrder[i]
        /\ \A i \in 1..(n - 1) : main.stages[i].ok
        /\ \A i \in DOMAIN main.fns :
              /\ FnStage(i) <= n \/ i \in quits
              /\ \A j \in DOMAIN main.fns : i < j => FnStage(i) <= FnStage(j)
        /\ MainFailed =>
              /\ main.pc \in {"catch", "SDL_Quit", "done"}
              /\ exc # NoExc /\ op = main.stages[n].stage
              /\ main.pc # "catch" => main.handler = Handler(exc)
        /\ ~MainFailed /\ main.pc \in {"end of try", "SDL_Quit", "done"} =>
              n = Len(StageOrder) /\ main.handler = "none"
        /\ Cardinality(quits) <= 1
        /\ \A i \in quits : i = Len(main.fns)
        /\ main.pc = "done" <=> Cardinality(quits) = 1
        /\ main.pc # "done" => ENABLED MainNext

(* A stage past instance creation failed and main has returned. *)
C11_Witness ==
    /\ main.pc = "done"
    /\ MainFailed
    /\ Len(main.stages) > StageIndex("Instance")
    /\ main.handler = "VulkanException&"

OnDescriptor == {"create_logical_device", "is_surface_supported"}

(* Every driver call of the operation in progress that names a queue      *)
(* family names the accelerator and the family of the descriptor.          *)
CallsUseDescriptor ==
    \A i \in DOMAIN calls :
        calls[i].fn \in {"vkCreateDevice", "vkGetPhysicalDeviceSurfaceSupportKHR"} =>
            /\ calls[i].physical_device = physical_device.physical_device
            /\ calls[i].queueFamilyIndex = physical_device.queue_family_index

C12_DescriptorStateUse ==
    /\ op = "select_gpu" /\ exc = NoExc => physical_device = ret
    /\ op \in OnDescriptor =>
          /\ args.this = physical_device
          /\ CallsUseDescriptor
    /\ op = "is_surface_supported" =>
          Len(calls) = 1 /\ calls[1].fn = "vkGetPhysicalDeviceSurfaceSupportKHR"
    /\ op = "create_logical_device" /\ exc = NoExc =>
          /\ calls[Len(calls)].fn = "vkCreateDevice"
          /\ ret.queue_family_index = physical_device.queue_family_index

(* C12: the descriptor select_gpu returned keeps its handle and its       *)
(* queue-family index across every create_logical_device and               *)
(* is_surface_supported call, failing or not; the device-creation request  *)
(* and the surface-support query name that handle and that index, and a    *)
(* LogicalDevice returned carries the index of the descriptor it was       *)
(* built from.                                                             *)
C12_QueueFamilyFixed ==
    /\ []C12_DescriptorStateUse
    /\ [][(op \in OnDescriptor \/ op' \in OnDescriptor)
            => physical_device' = physical_device]_vars

(* The surface-support query was asked of a descriptor whose handle       *)
(* differs from its queue-family index, after select_gpu chose it.         *)
C12_Witness ==
    /\ op = "is_surface_supported"
    /\ physical_device.physical_device # physical_device.queue_family_index
    /\ physical_device.physical_device \in GpuHandles

(* The arrays the two-call idiom allocates to receive a query's answer. *)
IsQueryBuffer(ev) ==
    ev.kind \in {"VkLayerProperties[]", "VkExtensionProperties[]",
                 "const char*[]", "VkPhysicalDevice[]"}

QueryBuffers == {i \in DOMAIN heap_log :
                    heap_log[i].ev = "new" /\ IsQueryBuffer(heap_log[i])}

(* C13: when an operation has ended, by return or by throw, every query   *)
(* buffer it allocated has been released by it: each new[] of a query      *)
(* buffer is followed by exactly one delete[] of that buffer.              *)
C13_QueryBuffersReleased ==
    \A i \in QueryBuffers :
        Cardinality({j \in DOMAIN heap_log :
                        /\ j > i
                        /\ heap_log[j].ev = "delete"
                        /\ heap_log[j].kind = heap_log[i].kind
                        /\ heap_log[j].id = heap_log[i].id}) = 1


=============================================================================
